---- MODULE Spec2Model ----
(***************************************************************************)
(* A model of kasegao/golang-lru: the ordered-map backed LRU cache         *)
(* (simplelru.LRUG, src/simplelru/lru_generics.go) and the 2Q cache built   *)
(* from three of them (TwoQueueCacheG, src/2q_generics.go).                 *)
(*                                                                         *)
(* An ordered map is a sequence of entries [key, value], oldest first.     *)
(* An LRUG is a record [size, items].  A TwoQueueCacheG is a record        *)
(* [size, recentSize, recent, frequent, recentEvict] of two integers and   *)
(* three LRUGs.                                                            *)
(***************************************************************************)
EXTENDS Integers, Sequences, FiniteSets, TLC

\* ------------------------------------------------------------------ bounds

NKeys == 3
MaxSize == 2

Keys == 1..NKeys
\* Two values tell an overwrite from a kept value; the code never inspects one.
Vals == {1, 2}

\* The zero value of V ("var empty V"), stored with a ghost key.
Empty == 0
\* The zero value of K, returned with ok = false.
NoKey == 0

\* ------------------------------------------------ the ordered map (omap)

Entry(k, v) == [key |-> k, value |-> v]

RECURSIVE IndexOf(_, _)
\* Position of key in items, 0 when absent.
IndexOf(items, key) ==
  IF items = <<>> THEN 0
  ELSE IF items[Len(items)].key = key THEN Len(items)
  ELSE IndexOf(SubSeq(items, 1, Len(items) - 1), key)

omHas(items, key) == IndexOf(items, key) # 0

\* OrderedMap.Get: (value, ok); the zero value when absent.
omGet(items, key) ==
  IF omHas(items, key)
  THEN [value |-> items[IndexOf(items, key)].value, ok |-> TRUE]
  ELSE [value |-> Empty, ok |-> FALSE]

\* items without the entry at position i
omDropAt(items, i) ==
  SubSeq(items, 1, i - 1) \o SubSeq(items, i + 1, Len(items))

\* OrderedMap.ToTail: the entry of key becomes the last one.
omToTail(items, key) ==
  IF omHas(items, key)
  THEN omDropAt(items, IndexOf(items, key)) \o <<items[IndexOf(items, key)]>>
  ELSE items

\* OrderedMap.Set: overwrite in place, or append a new entry.
omSet(items, key, value) ==
  IF omHas(items, key)
  THEN [items EXCEPT ![IndexOf(items, key)].value = value]
  ELSE Append(items, Entry(key, value))

\* OrderedMap.Pop / Delete: the map without key.
omDelete(items, key) ==
  IF omHas(items, key) THEN omDropAt(items, IndexOf(items, key)) ELSE items

\* OrderedMap.Keys: the keys, oldest first.
omKeys(items) == [i \in 1..Len(items) |-> items[i].key]

KeySet(items) == {items[i].key : i \in 1..Len(items)}

\* --------------------------------------------------------- simplelru.LRUG
\* Every operation returns the cache after it (c), its results, and the
\* entries that left the structure (evicted), in the order in which
\* removeElement or Purge would hand them to a non-nil onEvict.

\* NewLRUG
NewLRUG(size) ==
  IF size <= 0
  THEN [ok |-> FALSE, c |-> [size |-> 0, items |-> <<>>]]
  ELSE [ok |-> TRUE, c |-> [size |-> size, items |-> <<>>]]

\* LRUG.removeElement
removeElement(c, key) ==
  [c |-> [c EXCEPT !.items = omDelete(c.items, key)],
   evicted |-> IF omHas(c.items, key)
               THEN <<c.items[IndexOf(c.items, key)]>> ELSE <<>>]

\* removeOldest that drops the oldest entry without handing it to onEvict.
removeOldestSilent(c) ==
  IF Len(c.items) > 0
  THEN [c |-> [c EXCEPT !.items = Tail(c.items)], evicted |-> <<>>]
  ELSE [c |-> c, evicted |-> <<>>]

\* LRUG.removeOldest
removeOldest(c) ==
  IF Len(c.items) > 0
  THEN removeElement(c, c.items[1].key)
  ELSE [c |-> c, evicted |-> <<>>]

\* LRUG.Add
LRUAdd(c, key, value) ==
  LET moved == IF omGet(c.items, key).ok THEN omToTail(c.items, key) ELSE c.items
      c1    == [c EXCEPT !.items = omSet(moved, key, value)]
      evict == Len(c1.items) > c1.size
      r     == IF evict THEN removeOldest(c1) ELSE [c |-> c1, evicted |-> <<>>]
  IN  [c |-> r.c, ret |-> evict, evicted |-> r.evicted]

\* LRUG.Peek
LRUPeek(c, key) == omGet(c.items, key)

\* Get that returns the value without moving the key to the tail.
LRUGetNoTouch(c, key) ==
  LET p == LRUPeek(c, key)
  IN  [c |-> c, value |-> p.value, ok |-> p.ok]

\* LRUG.Get
LRUGet(c, key) ==
  LET p == LRUPeek(c, key)
  IN  [c |-> IF p.ok THEN [c EXCEPT !.items = omToTail(c.items, key)] ELSE c,
       value |-> p.value, ok |-> p.ok]

\* LRUG.Contains
LRUContains(c, key) == omGet(c.items, key).ok

\* LRUG.Remove
LRURemove(c, key) ==
  LET ok == LRUPeek(c, key).ok
      r  == IF ok THEN removeElement(c, key) ELSE [c |-> c, evicted |-> <<>>]
  IN  [c |-> r.c, ok |-> ok, evicted |-> r.evicted]

\* LRUG.GetOldest
LRUGetOldest(c) ==
  IF Len(c.items) > 0
  THEN [key |-> c.items[1].key, value |-> c.items[1].value, ok |-> TRUE]
  ELSE [key |-> NoKey, value |-> Empty, ok |-> FALSE]

\* LRUG.RemoveOldest
LRURemoveOldest(c) ==
  LET e == LRUGetOldest(c)
      r == IF e.ok THEN removeElement(c, e.key) ELSE [c |-> c, evicted |-> <<>>]
  IN  [c |-> r.c, key |-> e.key, value |-> e.value, ok |-> e.ok,
       evicted |-> r.evicted]

\* LRUG.Keys
LRUKeys(c) == omKeys(c.items)

\* LRUG.Len
LRULen(c) == Len(c.items)

RECURSIVE removeOldestTimes(_, _)
\* The loop of Resize: n calls of removeOldest.
removeOldestTimes(c, n) ==
  IF n <= 0 THEN [c |-> c, evicted |-> <<>>]
  ELSE LET r    == removeOldest(c)
           rest == removeOldestTimes(r.c, n - 1)
       IN  [c |-> rest.c, evicted |-> r.evicted \o rest.evicted]

\* LRUG.Resize
LRUResize(c, size) ==
  LET d    == LRULen(c) - size
      diff == IF d < 0 THEN 0 ELSE d
      r    == removeOldestTimes(c, diff)
  IN  [c |-> [r.c EXCEPT !.size = size], ret |-> diff, evicted |-> r.evicted]

\* LRUG.Purge: every entry of the snapshot is notified, then deleted.
LRUPurge(c) ==
  [c |-> [c EXCEPT !.items = <<>>], evicted |-> c.items]

\* --------------------------------------------------------- TwoQueueCacheG

\* Ratios are exact fractions <<numerator, denominator>>.
Default2QRecentRatioG == <<1, 4>>
Default2QGhostEntriesG == <<1, 2>>

\* The ratios construction is tried with: below 0, 0, 1/4, 1/2, 3/4, 1, above 1.
Ratios == {<<-1, 4>>, <<0, 1>>, <<1, 4>>, <<1, 2>>, <<3, 4>>, <<1, 1>>, <<5, 4>>}

RatioBelowZero(r) == r[1] < 0
RatioAboveOne(r) == r[1] > r[2]

\* int(float64(size) * ratio) for size >= 0 and a ratio >= 0: truncation.
Scale(size, r) == (size * r[1]) \div r[2]

NoCache ==
  [size |-> 0, recentSize |-> 0,
   recent |-> [size |-> 0, items |-> <<>>],
   frequent |-> [size |-> 0, items |-> <<>>],
   recentEvict |-> [size |-> 0, items |-> <<>>]]

\* New2QParamsG: [ok, err, c]
New2QParamsG(size, recentRatio, ghostRatio) ==
  IF size <= 0 THEN [ok |-> FALSE, err |-> "invalid size", c |-> NoCache]
  ELSE IF RatioBelowZero(recentRatio) \/ RatioAboveOne(recentRatio)
  THEN [ok |-> FALSE, err |-> "invalid recent ratio", c |-> NoCache]
  ELSE IF RatioBelowZero(ghostRatio) \/ RatioAboveOne(ghostRatio)
  THEN [ok |-> FALSE, err |-> "invalid ghost ratio", c |-> NoCache]
  ELSE
    LET recentSize  == Scale(size, recentRatio)
        evictSize   == Scale(size, ghostRatio)
        recent      == NewLRUG(size)
        frequent    == NewLRUG(size)
        recentEvict == NewLRUG(evictSize)
    IN  IF ~recent.ok \/ ~frequent.ok \/ ~recentEvict.ok
        THEN [ok |-> FALSE, err |-> "must provide a positive size", c |-> NoCache]
        ELSE [ok |-> TRUE, err |-> "",
              c |-> [size |-> size, recentSize |-> recentSize,
                     recent |-> recent.c, frequent |-> frequent.c,
                     recentEvict |-> recentEvict.c]]

\* New2QG
New2QG(size) == New2QParamsG(size, Default2QRecentRatioG, Default2QGhostEntriesG)

\* ensureSpace with the tie recentLen = recentSize never resolved against
\* recent: the victim is then taken from frequent.
ensureSpaceNoTie(q, recentEvict) ==
  LET recentLen == LRULen(q.recent)
      freqLen   == LRULen(q.frequent)
  IN  IF recentLen + freqLen < q.size
      THEN [q |-> q, ghosted |-> NoKey, dropped |-> NoKey]
      ELSE IF recentLen > 0 /\ recentLen > q.recentSize
      THEN LET o == LRURemoveOldest(q.recent)
           IN  [q |-> [q EXCEPT !.recent = o.c,
                                !.recentEvict = LRUAdd(q.recentEvict, o.key, Empty).c],
                ghosted |-> o.key, dropped |-> NoKey]
      ELSE LET o == LRURemoveOldest(q.frequent)
           IN  [q |-> [q EXCEPT !.frequent = o.c],
                ghosted |-> NoKey, dropped |-> o.key]

\* ensureSpace that evicts from recent without recording the ghost.
ensureSpaceNoGhost(q, recentEvict) ==
  LET recentLen == LRULen(q.recent)
      freqLen   == LRULen(q.frequent)
  IN  IF recentLen + freqLen < q.size
      THEN [q |-> q, ghosted |-> NoKey, dropped |-> NoKey]
      ELSE IF recentLen > 0
              /\ (recentLen > q.recentSize
                  \/ (recentLen = q.recentSize /\ ~recentEvict))
      THEN LET o == LRURemoveOldest(q.recent)
           IN  [q |-> [q EXCEPT !.recent = o.c],
                ghosted |-> o.key, dropped |-> NoKey]
      ELSE LET o == LRURemoveOldest(q.frequent)
           IN  [q |-> [q EXCEPT !.frequent = o.c],
                ghosted |-> NoKey, dropped |-> o.key]

\* TwoQueueCacheG.ensureSpace: the cache after it, the key it moved from
\* recent to recentEvict (ghosted) and the key it removed from frequent
\* (dropped), NoKey when there is none.
ensureSpace(q, recentEvict) ==
  LET recentLen == LRULen(q.recent)
      freqLen   == LRULen(q.frequent)
  IN  IF recentLen + freqLen < q.size
      THEN [q |-> q, ghosted |-> NoKey, dropped |-> NoKey]
      ELSE IF recentLen > 0
              /\ (recentLen > q.recentSize
                  \/ (recentLen = q.recentSize /\ ~recentEvict))
      THEN LET o == LRURemoveOldest(q.recent)
           IN  [q |-> [q EXCEPT !.recent = o.c,
                                !.recentEvict = LRUAdd(q.recentEvict, o.key, Empty).c],
                ghosted |-> o.key, dropped |-> NoKey]
      ELSE LET o == LRURemoveOldest(q.frequent)
           IN  [q |-> [q EXCEPT !.frequent = o.c],
                ghosted |-> NoKey, dropped |-> o.key]

\* Get that answers a hit in recent without promoting the key.
TQGetNoPromote(q, key) ==
  LET f == LRUGet(q.frequent, key)
      r == LRUPeek(q.recent, key)
  IN  IF f.ok THEN [q |-> [q EXCEPT !.frequent = f.c], value |-> f.value, ok |-> TRUE]
      ELSE IF r.ok THEN [q |-> q, value |-> r.value, ok |-> TRUE]
      ELSE [q |-> q, value |-> Empty, ok |-> FALSE]

\* Get that promotes a hit in recent without removing the key from recent.
TQGetKeepRecent(q, key) ==
  LET f == LRUGet(q.frequent, key)
      r == LRUPeek(q.recent, key)
  IN  IF f.ok THEN [q |-> [q EXCEPT !.frequent = f.c], value |-> f.value, ok |-> TRUE]
      ELSE IF r.ok
      THEN [q |-> [q EXCEPT !.frequent = LRUAdd(q.frequent, key, r.value).c],
            value |-> r.value, ok |-> TRUE]
      ELSE [q |-> q, value |-> Empty, ok |-> FALSE]

\* TwoQueueCacheG.Get
TQGet(q, key) ==
  LET f == LRUGet(q.frequent, key)
      r == LRUPeek(q.recent, key)
  IN  IF f.ok THEN [q |-> [q EXCEPT !.frequent = f.c], value |-> f.value, ok |-> TRUE]
      ELSE IF r.ok
      THEN [q |-> [q EXCEPT !.recent = LRURemove(q.recent, key).c,
                            !.frequent = LRUAdd(q.frequent, key, r.value).c],
            value |-> r.value, ok |-> TRUE]
      ELSE [q |-> q, value |-> Empty, ok |-> FALSE]

\* Add that takes a ghost back without removing it from recentEvict.
TQAddKeepGhost(q, key, value) ==
  IF LRUContains(q.frequent, key)
  THEN [q |-> [q EXCEPT !.frequent = LRUAdd(q.frequent, key, value).c],
        path |-> "frequent", ghosted |-> NoKey, dropped |-> NoKey]
  ELSE IF LRUContains(q.recent, key)
  THEN [q |-> [q EXCEPT !.recent = LRURemove(q.recent, key).c,
                        !.frequent = LRUAdd(q.frequent, key, value).c],
        path |-> "recent", ghosted |-> NoKey, dropped |-> NoKey]
  ELSE IF LRUContains(q.recentEvict, key)
  THEN LET e == ensureSpace(q, TRUE)
       IN  [q |-> [e.q EXCEPT !.frequent = LRUAdd(e.q.frequent, key, value).c],
            path |-> "ghost", ghosted |-> e.ghosted, dropped |-> e.dropped]
  ELSE LET e == ensureSpace(q, FALSE)
       IN  [q |-> [e.q EXCEPT !.recent = LRUAdd(e.q.recent, key, value).c],
            path |-> "new", ghosted |-> e.ghosted, dropped |-> e.dropped]

\* Add that makes room after storing a new key instead of before.
TQAddThenEnsure(q, key, value) ==
  IF LRUContains(q.frequent, key)
  THEN [q |-> [q EXCEPT !.frequent = LRUAdd(q.frequent, key, value).c],
        path |-> "frequent", ghosted |-> NoKey, dropped |-> NoKey]
  ELSE IF LRUContains(q.recent, key)
  THEN [q |-> [q EXCEPT !.recent = LRURemove(q.recent, key).c,
                        !.frequent = LRUAdd(q.frequent, key, value).c],
        path |-> "recent", ghosted |-> NoKey, dropped |-> NoKey]
  ELSE IF LRUContains(q.recentEvict, key)
  THEN LET e  == ensureSpace(q, TRUE)
           q1 == [e.q EXCEPT !.recentEvict = LRURemove(e.q.recentEvict, key).c]
       IN  [q |-> [q1 EXCEPT !.frequent = LRUAdd(q1.frequent, key, value).c],
            path |-> "ghost", ghosted |-> e.ghosted, dropped |-> e.dropped]
  ELSE LET e == ensureSpace([q EXCEPT !.recent = LRUAdd(q.recent, key, value).c],
                            FALSE)
       IN  [q |-> e.q, path |-> "new", ghosted |-> e.ghosted, dropped |-> e.dropped]

\* TwoQueueCacheG.Add: path names the branch taken.
TQAdd(q, key, value) ==
  IF LRUContains(q.frequent, key)
  THEN [q |-> [q EXCEPT !.frequent = LRUAdd(q.frequent, key, value).c],
        path |-> "frequent", ghosted |-> NoKey, dropped |-> NoKey]
  ELSE IF LRUContains(q.recent, key)
  THEN [q |-> [q EXCEPT !.recent = LRURemove(q.recent, key).c,
                        !.frequent = LRUAdd(q.frequent, key, value).c],
        path |-> "recent", ghosted |-> NoKey, dropped |-> NoKey]
  ELSE IF LRUContains(q.recentEvict, key)
  THEN LET e  == ensureSpace(q, TRUE)
           q1 == [e.q EXCEPT !.recentEvict = LRURemove(e.q.recentEvict, key).c]
       IN  [q |-> [q1 EXCEPT !.frequent = LRUAdd(q1.frequent, key, value).c],
            path |-> "ghost", ghosted |-> e.ghosted, dropped |-> e.dropped]
  ELSE LET e == ensureSpace(q, FALSE)
       IN  [q |-> [e.q EXCEPT !.recent = LRUAdd(e.q.recent, key, value).c],
            path |-> "new", ghosted |-> e.ghosted, dropped |-> e.dropped]

\* TwoQueueCacheG.Len
TQLen(q) == LRULen(q.recent) + LRULen(q.frequent)

\* TwoQueueCacheG.Keys
TQKeys(q) == LRUKeys(q.frequent) \o LRUKeys(q.recent)

\* Remove that looks in frequent and recent only.
TQRemoveNoGhost(q, key) ==
  LET f == LRURemove(q.frequent, key)
      r == LRURemove(q.recent, key)
  IN  IF f.ok THEN [q EXCEPT !.frequent = f.c]
      ELSE IF r.ok THEN [q EXCEPT !.recent = r.c]
      ELSE q

\* TwoQueueCacheG.Remove
TQRemove(q, key) ==
  LET f == LRURemove(q.frequent, key)
      r == LRURemove(q.recent, key)
      g == LRURemove(q.recentEvict, key)
  IN  IF f.ok THEN [q EXCEPT !.frequent = f.c]
      ELSE IF r.ok THEN [q EXCEPT !.recent = r.c]
      ELSE IF g.ok THEN [q EXCEPT !.recentEvict = g.c]
      ELSE q

\* Purge that clears recent and frequent and keeps the ghosts.
TQPurgeKeepGhosts(q) ==
  [q EXCEPT !.recent = LRUPurge(q.recent).c,
            !.frequent = LRUPurge(q.frequent).c]

\* TwoQueueCacheG.Purge
TQPurge(q) ==
  [q EXCEPT !.recent = LRUPurge(q.recent).c,
            !.frequent = LRUPurge(q.frequent).c,
            !.recentEvict = LRUPurge(q.recentEvict).c]

\* TwoQueueCacheG.Contains
TQContains(q, key) == LRUContains(q.frequent, key) \/ LRUContains(q.recent, key)

\* Peek that looks in frequent only.
TQPeekFrequentOnly(q, key) == LRUPeek(q.frequent, key)

\* TwoQueueCacheG.Peek
TQPeek(q, key) ==
  LET f == LRUPeek(q.frequent, key)
  IN  IF f.ok THEN f ELSE LRUPeek(q.recent, key)

\* ------------------------------------------- the sequential 2Q state machine
\* One caller at a time: every public operation is one step.  last records
\* the latest operation that can change the cache (New, Get, Add, Remove,
\* Purge) with its arguments, what it returned, the branch it took (path) and
\* what ensureSpace did inside it.  Contains, Peek, Len and Keys change
\* nothing; what they return is TQContains, TQPeek, TQLen and TQKeys of Q.

VARIABLES
  size, recentSize, recent, frequent, recentEvict,  \* the TwoQueueCacheG
  last,      \* the latest operation and what it returned
  cache,     \* a standalone LRUG
  touched,   \* the keys of cache by their latest Add or successful Get
  mu,        \* the RWMutex of the TwoQueueCacheG
  procs,     \* the concurrent callers
  lin        \* the TwoQueueCacheG of the sequential execution

tqVars == <<size, recentSize, recent, frequent, recentEvict>>
lruVars == <<cache, touched>>
concVars == <<mu, procs, lin>>
vars == <<size, recentSize, recent, frequent, recentEvict, last, cache, touched,
          mu, procs, lin>>

\* The TwoQueueCacheG the variables hold.
Q ==
  [size |-> size, recentSize |-> recentSize, recent |-> recent,
   frequent |-> frequent, recentEvict |-> recentEvict]

Store(q) ==
  /\ size' = q.size
  /\ recentSize' = q.recentSize
  /\ recent' = q.recent
  /\ frequent' = q.frequent
  /\ recentEvict' = q.recentEvict

Returned(op, key, val, ok, ret, path, ghosted, dropped) ==
  [op |-> op, key |-> key, val |-> val, ok |-> ok, ret |-> ret,
   path |-> path, ghosted |-> ghosted, dropped |-> dropped]

NoLRU == [size |-> 0, items |-> <<>>]

\* The parts of the state a specification does not use.
LRUUnused == cache = NoLRU /\ touched = <<>>
ConcUnused == mu = 0 /\ procs = <<>> /\ lin = 0

\* The ratios the caches of the sequential state machine are built with:
\* recent targets from none of the cache to all of it, and the ghost
\* capacities of half the cache and all of it.
RecentRatios == {<<0, 1>>, <<1, 4>>, <<1, 2>>, <<1, 1>>}
GhostRatios == {<<1, 2>>, <<1, 1>>}

\* Every construction that succeeds, over the sizes and ratios of the model.
Init ==
  \E s \in 1..MaxSize, rr \in RecentRatios, gr \in GhostRatios :
    \E n \in {New2QParamsG(s, rr, gr)} :
      /\ n.ok
      /\ size = n.c.size
      /\ recentSize = n.c.recentSize
      /\ recent = n.c.recent
      /\ frequent = n.c.frequent
      /\ recentEvict = n.c.recentEvict
      /\ last = Returned("New", NoKey, Empty, TRUE, Empty, "", NoKey, NoKey)
      /\ LRUUnused
      /\ ConcUnused

\* The branch of Get: a hit in frequent, a hit in recent, or a miss.
GetPath(q, key) ==
  IF LRUContains(q.frequent, key) THEN "frequent"
  ELSE IF LRUContains(q.recent, key) THEN "recent"
  ELSE "miss"

Get(key) ==
  \E r \in {TQGet(Q, key)} :
    /\ Store(r.q)
    /\ last' = Returned("Get", key, Empty, r.ok, r.value, GetPath(Q, key), NoKey, NoKey)
    /\ UNCHANGED <<lruVars, concVars>>

Add(key, value) ==
  \E r \in {TQAdd(Q, key, value)} :
    /\ Store(r.q)
    /\ last' = Returned("Add", key, value, TRUE, Empty, r.path, r.ghosted, r.dropped)
    /\ UNCHANGED <<lruVars, concVars>>

\* The branch of Remove: the pool that holds the key, or none.
RemovePath(q, key) ==
  IF LRUContains(q.frequent, key) THEN "frequent"
  ELSE IF LRUContains(q.recent, key) THEN "recent"
  ELSE IF LRUContains(q.recentEvict, key) THEN "ghost"
  ELSE "miss"

Remove(key) ==
  /\ Store(TQRemove(Q, key))
  /\ last' = Returned("Remove", key, Empty, TRUE, Empty, RemovePath(Q, key),
                      NoKey, NoKey)
  /\ UNCHANGED <<lruVars, concVars>>

\* last of a Purge: val is Len() before it and ret the number of ghosts
\* before it.
Purge ==
  /\ Store(TQPurge(Q))
  /\ last' = Returned("Purge", NoKey, TQLen(Q), TRUE, LRULen(recentEvict),
                      "", NoKey, NoKey)
  /\ UNCHANGED <<lruVars, concVars>>

Contains(key) ==
  /\ TQContains(Q, key) \in BOOLEAN
  /\ UNCHANGED vars

Peek(key) ==
  /\ TQPeek(Q, key).ok \in BOOLEAN
  /\ UNCHANGED vars

LenOp ==
  /\ TQLen(Q) >= 0
  /\ UNCHANGED vars

KeysOp ==
  /\ Len(TQKeys(Q)) >= 0
  /\ UNCHANGED vars

Next ==
  \/ \E k \in Keys : Get(k)
  \/ \E k \in Keys, v \in Vals : Add(k, v)
  \/ \E k \in Keys : Remove(k)
  \/ Purge
  \/ \E k \in Keys : Contains(k)
  \/ \E k \in Keys : Peek(k)
  \/ LenOp
  \/ KeysOp

Spec == Init /\ [][Next]_vars

\* ------------------------------------------------------- claims on the 2Q

InRecent(k) == LRUContains(recent, k)
InFrequent(k) == LRUContains(frequent, k)
InGhost(k) == LRUContains(recentEvict, k)

\* The newest key of an LRUG, NoKey when it is empty.
Newest(c) == IF Len(c.items) = 0 THEN NoKey ELSE c.items[Len(c.items)].key

Max(a, b) == IF a >= b THEN a ELSE b

\* C1: after every public operation returns, recent.Len() + frequent.Len()
\* is at most size, for every construction with a ghost capacity of 1 or more.
C1_CapacityInvariant == LRULen(recent) + LRULen(frequent) <= size

\* C2: in every reachable state each key is a member of at most one of the
\* pools recent, frequent and recentEvict.
C2_OnePoolPerKey ==
  \A k \in Keys :
    /\ ~(InRecent(k) /\ InFrequent(k))
    /\ ~(InRecent(k) /\ InGhost(k))
    /\ ~(InFrequent(k) /\ InGhost(k))

\* An Add that took a ghost back while its ensureSpace moved another key from
\* recent to recentEvict, leaving keys in all three pools.
C2_Witness ==
  /\ last.op = "Add" /\ last.path = "ghost" /\ last.ghosted # NoKey
  /\ LRULen(recent) > 0 /\ LRULen(frequent) > 0 /\ LRULen(recentEvict) > 0

\* The step is an Add of a key that was in none of the three pools.
AddedNew ==
  /\ last'.op = "Add"
  /\ ~InRecent(last'.key) /\ ~InFrequent(last'.key) /\ ~InGhost(last'.key)

\* The cache is full and recent is empty or below its target: the one case
\* in which ensureSpace(false) takes its victim from frequent.
RecentBelowTarget ==
  /\ LRULen(recent) + LRULen(frequent) >= size
  /\ LRULen(recent) < Max(1, recentSize)

\* C3 as stated: an Add of a wholly new key never evicts a key that was in
\* frequent, and the new key is admitted.
C3_ScanResistance ==
  [][AddedNew =>
       /\ \A f \in Keys : InFrequent(f) => TQContains(Q', f)
       /\ TQContains(Q', last'.key)]_vars

\* C3 amended: an Add of a wholly new key removes a key from frequent only
\* when it finds the cache full with recent empty or shorter than recentSize;
\* in every other state frequent is left as it was.  Once recent holds
\* max(1, recentSize) keys it keeps holding as many through such Adds, so
\* from there a burst of new keys evicts no frequent key.  The new key is
\* always admitted, into recent.
C3_ScanResistanceAmended ==
  [][AddedNew =>
       /\ ~RecentBelowTarget => frequent' = frequent
       /\ LRULen(recent) >= Max(1, recentSize)
            => LRULen(recent') >= Max(1, recentSize)
       /\ TQContains(Q', last'.key)
       /\ LRUContains(recent', last'.key)]_vars

\* An Add of a new key found the cache full with recent at its target and
\* frequent keys present, and took its victim from recent.
C3_Witness ==
  /\ last.op = "Add" /\ last.path = "new" /\ last.ghosted # NoKey
  /\ LRULen(frequent) > 0
  /\ LRULen(recent) + LRULen(frequent) >= size

\* C4: a key that ensureSpace evicts from recent is a ghost right after the
\* Add that called it: in recentEvict with the empty value, and absent for
\* Get, Peek and Contains.  An Add(x, v) of a ghost x leaves x in frequent
\* with value v, not in recent and not in recentEvict.
C4_GhostReadmission ==
  [][last'.op = "Add" =>
       /\ \A x \in Keys :
            (InRecent(x) /\ ~LRUContains(recent', x) /\ x # last'.key) =>
              /\ LRUPeek(recentEvict', x) = [value |-> Empty, ok |-> TRUE]
              /\ ~TQGet(Q', x).ok
              /\ ~TQPeek(Q', x).ok
              /\ ~TQContains(Q', x)
       /\ InGhost(last'.key) =>
              /\ LRUPeek(frequent', last'.key) = [value |-> last'.val, ok |-> TRUE]
              /\ ~LRUContains(recent', last'.key)
              /\ ~LRUContains(recentEvict', last'.key)]_vars

\* A ghost was added back, and the ensureSpace of that Add made a new ghost.
C4_Witness ==
  /\ last.op = "Add" /\ last.path = "ghost" /\ last.ghosted # NoKey
  /\ InGhost(last.ghosted) /\ InFrequent(last.key)

\* C5: Get(k) of a key in recent returns its value and a hit, Add(k, v) of a
\* key in recent stores v, and both leave k out of recent and newest in
\* frequent; an Add of a wholly new key puts it in recent; Get and Add of a
\* key in frequent keep it in frequent and make it the newest there.
C5_SecondTouchPromotion ==
  [][/\ (last'.op = "Get" /\ InRecent(last'.key)) =>
          /\ last'.ok
          /\ last'.ret = LRUPeek(recent, last'.key).value
          /\ ~LRUContains(recent', last'.key)
          /\ Newest(frequent') = last'.key
          /\ LRUPeek(frequent', last'.key).value = LRUPeek(recent, last'.key).value
     /\ (last'.op = "Add" /\ InRecent(last'.key)) =>
          /\ ~LRUContains(recent', last'.key)
          /\ Newest(frequent') = last'.key
          /\ LRUPeek(frequent', last'.key).value = last'.val
     /\ AddedNew =>
          /\ LRUPeek(recent', last'.key) = [value |-> last'.val, ok |-> TRUE]
          /\ ~LRUContains(frequent', last'.key)
     /\ (last'.op \in {"Get", "Add"} /\ InFrequent(last'.key)) =>
          /\ Newest(frequent') = last'.key
          /\ recent' = recent]_vars

\* A Get promoted a key from recent to the newest place of a frequent list
\* that already held another key.
C5_Witness ==
  /\ last.op = "Get" /\ last.path = "recent" /\ last.ok
  /\ LRULen(frequent) >= 2 /\ Newest(frequent) = last.key

\* C13: in every reachable state Keys() is the frequent keys oldest to
\* newest followed by the recent keys oldest to newest, with no duplicate and
\* no ghost key; Len() is the length of Keys(); Contains(k) is true exactly
\* when k occurs in Keys(), so a key that is only a ghost is not contained.
C13_ReadViews ==
  /\ TQKeys(Q) = LRUKeys(frequent) \o LRUKeys(recent)
  /\ Cardinality({TQKeys(Q)[i] : i \in 1..Len(TQKeys(Q))}) = Len(TQKeys(Q))
  /\ \A i \in 1..Len(TQKeys(Q)) : ~InGhost(TQKeys(Q)[i])
  /\ TQLen(Q) = Len(TQKeys(Q))
  /\ \A k \in Keys :
       TQContains(Q, k) <=> (\E i \in 1..Len(TQKeys(Q)) : TQKeys(Q)[i] = k)

\* Keys() is one frequent key followed by one recent key, and another key
\* is a ghost that Contains does not report.
C13_Witness ==
  /\ Len(TQKeys(Q)) = 2
  /\ InFrequent(TQKeys(Q)[1]) /\ InRecent(TQKeys(Q)[2])
  /\ \E g \in Keys : InGhost(g) /\ ~TQContains(Q, g)

\* C14: after Remove(k) the key k is in none of recent, frequent and
\* recentEvict, so that an Add(k, v) after it takes k as a new key and puts
\* it in recent; every other key keeps its pool, value and place; Remove of
\* a key in no pool changes nothing.
C14_RemoveFrame ==
  [][last'.op = "Remove" =>
       /\ ~LRUContains(recent', last'.key)
       /\ ~LRUContains(frequent', last'.key)
       /\ ~LRUContains(recentEvict', last'.key)
       /\ last'.path # "miss" =>
            \A v \in Vals : \E a \in {TQAdd(Q', last'.key, v)} :
              /\ a.path = "new"
              /\ LRUPeek(a.q.recent, last'.key) = [value |-> v, ok |-> TRUE]
       /\ recent' = [recent EXCEPT !.items = omDelete(recent.items, last'.key)]
       /\ frequent' = [frequent EXCEPT !.items = omDelete(frequent.items, last'.key)]
       /\ recentEvict' =
            [recentEvict EXCEPT !.items = omDelete(recentEvict.items, last'.key)]
       /\ size' = size /\ recentSize' = recentSize
       /\ (~InRecent(last'.key) /\ ~InFrequent(last'.key) /\ ~InGhost(last'.key))
            => Q' = Q]_vars

\* Remove took a ghost away while recent and frequent held keys.
C14_Witness ==
  /\ last.op = "Remove" /\ last.path = "ghost"
  /\ LRULen(recent) > 0 /\ LRULen(frequent) > 0

\* C15: after Purge the three pools are empty: Len() is 0, Keys() is empty
\* and no ghost is left, so an Add of any key, a ghost before the Purge or
\* not, puts the key in recent; a second Purge changes nothing.
C15_PurgeClearsAll ==
  [][last'.op = "Purge" =>
       /\ recent'.items = <<>> /\ frequent'.items = <<>>
       /\ recentEvict'.items = <<>>
       /\ TQLen(Q') = 0
       /\ TQKeys(Q') = <<>>
       /\ \A k \in Keys, v \in Vals : \E a \in {TQAdd(Q', k, v)} :
            /\ a.path = "new"
            /\ LRUContains(a.q.recent, k)
            /\ ~LRUContains(a.q.frequent, k)
       /\ TQPurge(Q') = Q'
       /\ size' = size /\ recentSize' = recentSize]_vars

\* A Purge that found two cached keys and a ghost.
C15_Witness ==
  /\ last.op = "Purge"
  /\ last.val >= 2 /\ last.ret >= 1
  /\ TQLen(Q) = 0 /\ LRULen(recentEvict) = 0

\* The condition under which ensureSpace takes its victim from recent.
VictimFromRecent(hint) ==
  /\ LRULen(recent) > 0
  /\ \/ LRULen(recent) > recentSize
     \/ LRULen(recent) = recentSize /\ ~hint

\* C16: the ensureSpace of an Add of a key in neither recent nor frequent
\* (a ghost promotion when the key is in recentEvict): with
\* recent.Len() + frequent.Len() < size it evicts nothing; otherwise exactly
\* one entry leaves recent and frequent together: the oldest of recent, whose
\* key becomes a ghost with the empty value while frequent is unchanged,
\* when VictimFromRecent holds, and the oldest of frequent, with recent
\* unchanged and no ghost recorded, in every other case.
C16_EnsureSpaceVictim ==
  [][(last'.op = "Add" /\ last'.path \in {"ghost", "new"}) =>
       LET hint == last'.path = "ghost"
           e    == ensureSpace(Q, hint)
       IN  /\ last'.ghosted = e.ghosted /\ last'.dropped = e.dropped
           /\ LRULen(recent) + LRULen(frequent) < size => e.q = Q
           /\ LRULen(recent) + LRULen(frequent) >= size =>
                /\ LRULen(e.q.recent) + LRULen(e.q.frequent)
                     = LRULen(recent) + LRULen(frequent) - 1
                /\ VictimFromRecent(hint) =>
                     /\ e.q.recent.items = Tail(recent.items)
                     /\ e.q.frequent = frequent
                     /\ e.ghosted = recent.items[1].key
                     /\ LRUPeek(e.q.recentEvict, e.ghosted)
                          = [value |-> Empty, ok |-> TRUE]
                /\ ~VictimFromRecent(hint) =>
                     /\ e.q.frequent.items = Tail(frequent.items)
                     /\ e.q.recent = recent
                     /\ e.q.recentEvict = recentEvict]_vars

\* C17: Peek, Contains, Len and Keys change nothing, and a Get that misses,
\* also on a key that is only a ghost, leaves recent, frequent and
\* recentEvict as they were; Peek(k) returns the value and the found flag
\* that Get(k) returns in the same state.
C17_PureReads ==
  /\ [](\A k \in Keys :
          /\ TQPeek(Q, k) = [value |-> TQGet(Q, k).value, ok |-> TQGet(Q, k).ok]
          /\ ~TQGet(Q, k).ok => TQGet(Q, k).q = Q)
  /\ [][(last'.op = "Get" /\ ~last'.ok) => UNCHANGED tqVars]_vars

\* A Get of a key that is only a ghost missed, with a key in recent that
\* Peek finds.
C17_Witness ==
  /\ last.op = "Get" /\ ~last.ok /\ InGhost(last.key)
  /\ \E k \in Keys : InRecent(k) /\ TQPeek(Q, k).ok

\* C19: Get(k) leaves the set of keys for which Contains is true and the
\* value of each of them as they were, and an Add(k, v) of a key in recent or
\* frequent changes the value and place of k only: the capacity eviction of
\* the LRUGs recent and frequent never fires.
C19_GetNeverEvicts ==
  [][/\ last'.op = "Get" =>
          \A x \in Keys :
            /\ TQContains(Q', x) <=> TQContains(Q, x)
            /\ TQPeek(Q', x) = TQPeek(Q, x)
     /\ (last'.op = "Add" /\ TQContains(Q, last'.key)) =>
          \A x \in Keys \ {last'.key} :
            /\ TQContains(Q', x) <=> TQContains(Q, x)
            /\ TQPeek(Q', x) = TQPeek(Q, x)]_vars

\* C20: right after Add(k, v) returns, Contains(k) is true and Peek(k) and
\* Get(k) return v and found: the eviction of that Add never removes k.
C20_ReadYourWrite ==
  [][last'.op = "Add" =>
       /\ TQContains(Q', last'.key)
       /\ TQPeek(Q', last'.key) = [value |-> last'.val, ok |-> TRUE]
       /\ \E g \in {TQGet(Q', last'.key)} : g.ok /\ g.value = last'.val]_vars

\* An Add of a new key evicted the only key of recent and left the new key
\* there alone, readable with the value added.
C20_Witness ==
  /\ last.op = "Add" /\ last.path = "new" /\ last.ghosted # NoKey
  /\ LRUKeys(recent) = <<last.key>>
  /\ TQPeek(Q, last.key) = [value |-> last.val, ok |-> TRUE]

\* ------------------------------------------------- construction of the 2Q
\* SpecNew: every call of New2QParamsG and New2QG over the sizes -1..MaxSize
\* and the ratios of Ratios.  last holds the call, whether it succeeded and
\* its error; the cache variables hold the cache it returned.

NewSizes == -1..MaxSize

InitNew ==
  /\ size = NoCache.size
  /\ recentSize = NoCache.recentSize
  /\ recent = NoCache.recent
  /\ frequent = NoCache.frequent
  /\ recentEvict = NoCache.recentEvict
  /\ last = [op |-> "none"]
  /\ LRUUnused
  /\ ConcUnused

CallNew2QParamsG(s, rr, gr) ==
  \E n \in {New2QParamsG(s, rr, gr)} :
    /\ Store(n.c)
    /\ last' = [op |-> "New2QParamsG", size |-> s, recentRatio |-> rr,
                ghostRatio |-> gr, ok |-> n.ok, err |-> n.err]
    /\ UNCHANGED <<lruVars, concVars>>

CallNew2QG(s) ==
  \E n \in {New2QG(s)} :
    /\ Store(n.c)
    /\ last' = [op |-> "New2QG", size |-> s,
                recentRatio |-> Default2QRecentRatioG,
                ghostRatio |-> Default2QGhostEntriesG, ok |-> n.ok, err |-> n.err]
    /\ UNCHANGED <<lruVars, concVars>>

NextNew ==
  \/ \E s \in NewSizes, rr \in Ratios, gr \in Ratios : CallNew2QParamsG(s, rr, gr)
  \/ \E s \in NewSizes : CallNew2QG(s)

SpecNew == InitNew /\ [][NextNew]_vars

RatioInUnit(r) == 0 <= r[1] /\ r[1] <= r[2]

\* C6: construction fails exactly when size <= 0 or a ratio lies outside
\* [0, 1]; it succeeds for every size > 0 with both ratios in [0, 1], also
\* when the ghost capacity floor(size * ghostRatio) is 0.
C6_ConstructionFailsExactly ==
  last.op \in {"New2QParamsG", "New2QG"} =>
    (last.ok <=> (last.size > 0 /\ RatioInUnit(last.recentRatio)
                                /\ RatioInUnit(last.ghostRatio)))

\* ------------------------------------------------- the standalone LRUG
\* SpecLRU: one LRUG built by NewLRUG with a capacity in 1..MaxSize and no
\* eviction callback other than the record of what it would be called with
\* (last.evicted).  Every public operation is one step.

LReturned(op, key, val, ok, ret, rkey, evicted) ==
  [op |-> op, key |-> key, val |-> val, ok |-> ok, ret |-> ret, rkey |-> rkey,
   evicted |-> evicted]

\* key becomes the latest touched key.
Touch(t, key) == SelectSeq(t, LAMBDA k : k # key) \o <<key>>

\* The sizes Resize is called with.
ResizeSizes == -1..MaxSize

InitLRU ==
  /\ \E cap \in 1..MaxSize : NewLRUG(cap).ok /\ cache = NewLRUG(cap).c
  /\ touched = <<>>
  /\ last = LReturned("NewLRUG", NoKey, Empty, TRUE, Empty, NoKey, <<>>)
  /\ size = NoCache.size
  /\ recentSize = NoCache.recentSize
  /\ recent = NoCache.recent
  /\ frequent = NoCache.frequent
  /\ recentEvict = NoCache.recentEvict
  /\ ConcUnused

LAdd(key, value) ==
  \E r \in {LRUAdd(cache, key, value)} :
    /\ cache' = r.c
    /\ touched' = Touch(touched, key)
    /\ last' = LReturned("Add", key, value, r.ret, Empty, NoKey, r.evicted)
    /\ UNCHANGED <<tqVars, concVars>>

LGet(key) ==
  \E r \in {LRUGet(cache, key)} :
    /\ cache' = r.c
    /\ touched' = IF r.ok THEN Touch(touched, key) ELSE touched
    /\ last' = LReturned("Get", key, Empty, r.ok, r.value, NoKey, <<>>)
    /\ UNCHANGED <<tqVars, concVars>>

LPeek(key) ==
  /\ last' = LReturned("Peek", key, Empty, LRUPeek(cache, key).ok,
                       LRUPeek(cache, key).value, NoKey, <<>>)
  /\ UNCHANGED <<cache, touched, tqVars, concVars>>

LContains(key) ==
  /\ last' = LReturned("Contains", key, Empty, LRUContains(cache, key), Empty,
                       NoKey, <<>>)
  /\ UNCHANGED <<cache, touched, tqVars, concVars>>

LRemove(key) ==
  \E r \in {LRURemove(cache, key)} :
    /\ cache' = r.c
    /\ last' = LReturned("Remove", key, Empty, r.ok, Empty, NoKey, r.evicted)
    /\ UNCHANGED <<touched, tqVars, concVars>>

LRemoveOldest ==
  \E r \in {LRURemoveOldest(cache)} :
    /\ cache' = r.c
    /\ last' = LReturned("RemoveOldest", NoKey, Empty, r.ok, r.value, r.key, r.evicted)
    /\ UNCHANGED <<touched, tqVars, concVars>>

LGetOldest ==
  \E r \in {LRUGetOldest(cache)} :
    /\ last' = LReturned("GetOldest", NoKey, Empty, r.ok, r.value, r.key, <<>>)
    /\ UNCHANGED <<cache, touched, tqVars, concVars>>

LKeys ==
  /\ last' = LReturned("Keys", NoKey, Empty, TRUE, Empty, NoKey, <<>>)
  /\ UNCHANGED <<cache, touched, tqVars, concVars>>

LLen ==
  /\ last' = LReturned("Len", NoKey, Empty, TRUE, LRULen(cache), NoKey, <<>>)
  /\ UNCHANGED <<cache, touched, tqVars, concVars>>

LResize(n) ==
  \E r \in {LRUResize(cache, n)} :
    /\ cache' = r.c
    /\ last' = LReturned("Resize", NoKey, n, TRUE, r.ret, NoKey, r.evicted)
    /\ UNCHANGED <<touched, tqVars, concVars>>

LPurge ==
  \E r \in {LRUPurge(cache)} :
    /\ cache' = r.c
    /\ last' = LReturned("Purge", NoKey, Empty, TRUE, Empty, NoKey, r.evicted)
    /\ UNCHANGED <<touched, tqVars, concVars>>

NextLRU ==
  \/ \E k \in Keys, v \in Vals : LAdd(k, v)
  \/ \E k \in Keys : LGet(k)
  \/ \E k \in Keys : LPeek(k)
  \/ \E k \in Keys : LContains(k)
  \/ \E k \in Keys : LRemove(k)
  \/ LRemoveOldest
  \/ LGetOldest
  \/ LKeys
  \/ LLen
  \/ \E n \in ResizeSizes : LResize(n)
  \/ LPurge

SpecLRU == InitLRU /\ [][NextLRU]_vars

\* C8: after every public operation of an LRUG returns, Len() is at most
\* the current capacity: the one given to NewLRUG or to the latest Resize.
C8_LenWithinCapacity == LRULen(cache) <= cache.size

\* The present keys in the order of their latest Add or successful Get.
ByLatestTouch == SelectSeq(touched, LAMBDA k : LRUContains(cache, k))

\* The operations that are to leave the order alone.
OrderKept ==
  \/ last'.op \in {"Peek", "Contains", "GetOldest", "Len", "Keys"}
  \/ last'.op = "Get" /\ ~last'.ok

\* C9: Keys() lists exactly the present keys, each once, oldest first by
\* the latest Add or successful Get of each; Peek, Contains, GetOldest, Len,
\* Keys and a Get that misses leave that order unchanged.
C9_RecencyOrder ==
  /\ [](/\ LRUKeys(cache) = ByLatestTouch
        /\ Cardinality(KeySet(cache.items)) = Len(LRUKeys(cache)))
  /\ [][OrderKept => LRUKeys(cache') = LRUKeys(cache)]_vars

\* After Add(k1); Add(k2); Get(k1) with room for both: Keys() is [k2, k1].
C9_Witness ==
  /\ last.op = "Get" /\ last.ok
  /\ LRULen(cache) >= 2
  /\ LRUKeys(cache)[LRULen(cache)] = last.key
  /\ touched = LRUKeys(cache)

\* The step is an Add of a key that was absent.
LAddedNew == last'.op = "Add" /\ ~LRUContains(cache, last'.key)

\* C10: an Add of a new key into an LRUG whose Len() equals its capacity
\* removes exactly the entry GetOldest would have returned before it and
\* returns true; an Add of a new key below capacity and an Add of a present
\* key remove nothing and return false.
C10_AddEvictionRule ==
  [][/\ (LAddedNew /\ LRULen(cache) = cache.size) =>
          /\ last'.ok
          /\ LRUGetOldest(cache).ok
          /\ last'.evicted = <<Entry(LRUGetOldest(cache).key, LRUGetOldest(cache).value)>>
          /\ cache'.items =
               Tail(cache.items) \o <<Entry(last'.key, last'.val)>>
     /\ (LAddedNew /\ LRULen(cache) < cache.size) =>
          /\ ~last'.ok
          /\ last'.evicted = <<>>
          /\ cache'.items = Append(cache.items, Entry(last'.key, last'.val))
     /\ (last'.op = "Add" /\ LRUContains(cache, last'.key)) =>
          /\ ~last'.ok
          /\ last'.evicted = <<>>
          /\ cache'.items =
               omDelete(cache.items, last'.key) \o <<Entry(last'.key, last'.val)>>]_vars

\* C11: Resize(n) on an LRUG holding m entries returns the number of entries
\* the call evicted; when m > n it returns m - n, leaves Len() = n and evicts
\* exactly the m - n oldest entries, oldest first; when m <= n it evicts
\* nothing and returns 0.  n is any integer: Resize rejects none.
C11_ResizeContract ==
  [][last'.op = "Resize" =>
       LET m == LRULen(cache)
           n == last'.val
       IN  /\ last'.ret = Len(last'.evicted)
           /\ m > n =>
                /\ last'.ret = m - n
                /\ LRULen(cache') = n
                /\ last'.evicted = SubSeq(cache.items, 1, m - n)
           /\ m <= n =>
                /\ last'.ret = 0
                /\ last'.evicted = <<>>
                /\ cache'.items = cache.items]_vars

\* The entries the LRUG holds in the course of the step: those it held
\* before, with the entry an Add stores.
HeldInStep ==
  IF last'.op = "Add" THEN omSet(cache.items, last'.key, last'.val)
  ELSE cache.items

\* The entries that leave the LRUG in the step.
LeftInStep == SelectSeq(HeldInStep, LAMBDA e : ~omHas(cache'.items, e.key))

\* C12: in every operation of an LRUG, onEvict is called exactly once for
\* each entry that leaves the structure, with its key and its last stored
\* value, and for no entry that stays: an Add that overwrites, a Get, a Peek
\* and the other reads notify nothing.  After Purge every entry that was
\* present has been notified once and Len() = 0.
C12_EvictNotification ==
  [][/\ {last'.evicted[i] : i \in 1..Len(last'.evicted)}
          = {LeftInStep[i] : i \in 1..Len(LeftInStep)}
     /\ Len(last'.evicted) = Len(LeftInStep)
     /\ \A i \in 1..Len(last'.evicted) : ~omHas(cache'.items, last'.evicted[i].key)
     /\ (last'.op = "Add" /\ LRUContains(cache, last'.key)
           /\ LRULen(cache) <= cache.size) => last'.evicted = <<>>
     /\ last'.op \in {"Get", "Peek", "Contains", "GetOldest", "Keys", "Len"}
          => last'.evicted = <<>>
     /\ last'.op = "Purge" =>
          /\ LRULen(cache') = 0
          /\ Len(last'.evicted) = LRULen(cache)]_vars

\* A Purge of an LRUG that held two entries notified both.
C12_Witness ==
  /\ last.op = "Purge" /\ Len(last.evicted) = 2
  /\ last.evicted[1].key # last.evicted[2].key
  /\ LRULen(cache) = 0

\* ------------------------------------------- the concurrent 2Q state machine
\* SpecConc: NProcs callers of one TwoQueueCacheG.  A call takes the lock its
\* operation takes (LockKind), runs the body one substrate mutation per step,
\* and releases the lock as it returns (the deferred Unlock / RUnlock).  A
\* caller blocked in Lock or RLock has made no step yet: it is idle.
\*
\* mu is the sync.RWMutex: the writer holding it, the writer that announced
\* itself and waits for the readers to leave (a pending writer blocks new
\* readers), and the readers holding it.
\*
\* lin is the cache of the sequential execution: each call is applied to it
\* whole, by TQGet, TQAdd, TQRemove, TQPurge, at the moment the call gets the
\* lock, and what the call should return (exp) is taken from it then.

NProcs == 2
NConcKeys == 2
ConcMaxSize == 1

Procs == 1..NProcs
ConcKeys == 1..NConcKeys
\* One value: a hit returns it and a miss returns Empty.
ConcVals == {1}
NoProc == 0

WriteOps == {"Get", "Add", "Remove", "Purge"}
ReadOps == {"Len", "Keys", "Contains", "Peek"}

\* Get that takes the shared lock, as a read-only lookup would.
LockKindGetShared(op) ==
  IF op \in {"Add", "Remove", "Purge"} THEN "Lock" ELSE "RLock"

\* The lock each public operation takes on entry.
LockKind(op) ==
  IF op \in {"Get", "Add", "Remove", "Purge"} THEN "Lock" ELSE "RLock"

\* The calls a caller can make.
Calls ==
  {[op |-> "Add", key |-> k, val |-> v] : k \in ConcKeys, v \in ConcVals}
    \cup {[op |-> o, key |-> k, val |-> Empty] :
            o \in {"Get", "Remove", "Contains", "Peek"}, k \in ConcKeys}
    \cup {[op |-> o, key |-> NoKey, val |-> Empty] : o \in {"Purge", "Len", "Keys"}}

\* What a call returns: the value and the found flag of Get and Peek, the
\* flag of Contains, the number of Len, the keys of Keys; the rest is zero.
NoResult == [value |-> Empty, ok |-> FALSE, n |-> 0, keys |-> <<>>]

IdleProc ==
  [pc |-> "idle", op |-> "", key |-> NoKey, val |-> Empty, tmp |-> 0,
   path |-> "", ret |-> NoResult, exp |-> NoResult]

\* Where the body of an operation starts.  The body of Len, Keys, Contains
\* and Peek is their lookups, which change nothing: it is run as the call
\* gets the lock, and what is left of the call is the deferred unlock.
FirstPc(op) ==
  CASE op = "Get" -> "get"
    [] op = "Add" -> "add"
    [] op = "Remove" -> "remove"
    [] op = "Purge" -> "purge1"
    [] OTHER -> "unlock"

\* What a call returns on the cache q.
Result(q, op, key) ==
  CASE op = "Get" ->
         [NoResult EXCEPT !.value = TQGet(q, key).value, !.ok = TQGet(q, key).ok]
    [] op = "Peek" ->
         [NoResult EXCEPT !.value = TQPeek(q, key).value, !.ok = TQPeek(q, key).ok]
    [] op = "Contains" -> [NoResult EXCEPT !.ok = TQContains(q, key)]
    [] op = "Len" -> [NoResult EXCEPT !.n = TQLen(q)]
    [] op = "Keys" -> [NoResult EXCEPT !.keys = TQKeys(q)]
    [] OTHER -> NoResult

\* The cache after a call on the cache q.
Effect(q, op, key, val) ==
  CASE op = "Get" -> TQGet(q, key).q
    [] op = "Add" -> TQAdd(q, key, val).q
    [] op = "Remove" -> TQRemove(q, key)
    [] op = "Purge" -> TQPurge(q)
    [] OTHER -> q

InitConc ==
  /\ \E s \in 1..ConcMaxSize, rr \in Ratios, gr \in Ratios :
       \E n \in {New2QParamsG(s, rr, gr)} :
         /\ n.ok
         /\ size = n.c.size
         /\ recentSize = n.c.recentSize
         /\ recent = n.c.recent
         /\ frequent = n.c.frequent
         /\ recentEvict = n.c.recentEvict
         /\ lin = n.c
  /\ mu = [writer |-> NoProc, pending |-> NoProc, readers |-> {}]
  /\ procs = [p \in Procs |-> IdleProc]
  /\ last = Returned("New", NoKey, Empty, TRUE, Empty, "", NoKey, NoKey)
  /\ LRUUnused

\* The call gets the lock: it takes its place in the sequential execution.
\* Len, Keys, Contains and Peek look the cache up as it is now.
Entered(p, pr) ==
  /\ procs' = [procs EXCEPT ![p] =
                 [pr EXCEPT !.pc = FirstPc(pr.op),
                            !.ret = IF pr.op \in ReadOps
                                    THEN Result(Q, pr.op, pr.key) ELSE NoResult,
                            !.exp = Result(lin, pr.op, pr.key)]]
  /\ lin' = Effect(lin, pr.op, pr.key, pr.val)

\* c.lock.Lock() up to the announcement: the caller is the one writer that
\* has w, and new readers wait for it.  Which call it is making shows only
\* once it has the lock.
Announce(p) ==
  /\ procs[p].pc = "idle"
  /\ mu.writer = NoProc /\ mu.pending = NoProc
  /\ mu' = [mu EXCEPT !.pending = p]
  /\ procs' = [procs EXCEPT ![p].pc = "wwait"]
  /\ UNCHANGED <<tqVars, last, lruVars, lin>>

\* c.lock.Lock() returns once the readers have left.
Acquire(p, call) ==
  /\ procs[p].pc = "wwait"
  /\ LockKind(call.op) = "Lock"
  /\ mu.readers = {}
  /\ mu' = [mu EXCEPT !.writer = p, !.pending = NoProc]
  /\ Entered(p, [IdleProc EXCEPT !.op = call.op, !.key = call.key,
                                 !.val = call.val])
  /\ UNCHANGED <<tqVars, last, lruVars>>

\* c.lock.RLock(): no writer holds the lock or waits for it.
AcquireShared(p, call) ==
  /\ procs[p].pc = "idle"
  /\ LockKind(call.op) = "RLock"
  /\ mu.writer = NoProc /\ mu.pending = NoProc
  /\ mu' = [mu EXCEPT !.readers = @ \cup {p}]
  /\ Entered(p, [IdleProc EXCEPT !.op = call.op, !.key = call.key,
                                 !.val = call.val])
  /\ UNCHANGED <<tqVars, last, lruVars>>

Goto(p, pc) == procs' = [procs EXCEPT ![p].pc = pc]
\* A return that skips the deferred unlock: the caller is back outside.
ReturnNoUnlock(p, ret) == procs' = [procs EXCEPT ![p] = IdleProc]

Return(p, ret) == procs' = [procs EXCEPT ![p].pc = "unlock", ![p].ret = ret]

\* Get, lines 93-100: the hit in frequent, or the Peek and Remove in recent.
StepGet(p) ==
  /\ procs[p].pc = "get"
  /\ \E f \in {LRUGet(frequent, procs[p].key)}, r \in {LRUPeek(recent, procs[p].key)} :
       IF f.ok
       THEN /\ frequent' = f.c
            /\ Return(p, [NoResult EXCEPT !.value = f.value, !.ok = TRUE])
            /\ UNCHANGED recent
       ELSE IF r.ok
       THEN /\ recent' = LRURemove(recent, procs[p].key).c
            /\ procs' = [procs EXCEPT ![p].pc = "getAdd", ![p].tmp = r.value]
            /\ UNCHANGED frequent
       ELSE /\ Return(p, NoResult)
            /\ UNCHANGED <<recent, frequent>>
  /\ UNCHANGED <<size, recentSize, recentEvict, last, lruVars, mu, lin>>

\* Get, lines 101-102.
StepGetAdd(p) ==
  /\ procs[p].pc = "getAdd"
  /\ frequent' = LRUAdd(frequent, procs[p].key, procs[p].tmp).c
  /\ Return(p, [NoResult EXCEPT !.value = procs[p].tmp, !.ok = TRUE])
  /\ UNCHANGED <<size, recentSize, recent, recentEvict, last, lruVars, mu, lin>>

\* Add, lines 116-139: the branch, with the first mutation of the first two.
StepAdd(p) ==
  /\ procs[p].pc = "add"
  /\ IF LRUContains(frequent, procs[p].key)
     THEN /\ frequent' = LRUAdd(frequent, procs[p].key, procs[p].val).c
          /\ Return(p, NoResult)
          /\ UNCHANGED recent
     ELSE IF LRUContains(recent, procs[p].key)
     THEN /\ recent' = LRURemove(recent, procs[p].key).c
          /\ Goto(p, "addFreq")
          /\ UNCHANGED frequent
     ELSE /\ procs' = [procs EXCEPT
                         ![p].pc = "ensure",
                         ![p].path = IF LRUContains(recentEvict, procs[p].key)
                                     THEN "ghost" ELSE "new"]
          /\ UNCHANGED <<recent, frequent>>
  /\ UNCHANGED <<size, recentSize, recentEvict, last, lruVars, mu, lin>>

\* Where Add goes on after ensureSpace.
AfterEnsure(path) == IF path = "ghost" THEN "ghostRemove" ELSE "addRecent"

\* ensureSpace, lines 146-162, up to its RemoveOldest.
StepEnsure(p) ==
  /\ procs[p].pc = "ensure"
  /\ LET recentLen == LRULen(recent)
         freqLen   == LRULen(frequent)
     IN  IF recentLen + freqLen < size
         THEN /\ Goto(p, AfterEnsure(procs[p].path))
              /\ UNCHANGED <<recent, frequent>>
         ELSE IF recentLen > 0
                 /\ (recentLen > recentSize
                     \/ (recentLen = recentSize /\ procs[p].path # "ghost"))
         THEN /\ recent' = LRURemoveOldest(recent).c
              /\ procs' = [procs EXCEPT ![p].pc = "ensureGhost",
                                        ![p].tmp = LRURemoveOldest(recent).key]
              /\ UNCHANGED frequent
         ELSE /\ frequent' = LRURemoveOldest(frequent).c
              /\ Goto(p, AfterEnsure(procs[p].path))
              /\ UNCHANGED recent
  /\ UNCHANGED <<size, recentSize, recentEvict, last, lruVars, mu, lin>>

\* ensureSpace, line 157.
StepEnsureGhost(p) ==
  /\ procs[p].pc = "ensureGhost"
  /\ recentEvict' = LRUAdd(recentEvict, procs[p].tmp, Empty).c
  /\ Goto(p, AfterEnsure(procs[p].path))
  /\ UNCHANGED <<size, recentSize, recent, frequent, last, lruVars, mu, lin>>

\* Add, line 133.
StepGhostRemove(p) ==
  /\ procs[p].pc = "ghostRemove"
  /\ recentEvict' = LRURemove(recentEvict, procs[p].key).c
  /\ Goto(p, "addFreq")
  /\ UNCHANGED <<size, recentSize, recent, frequent, last, lruVars, mu, lin>>

\* Add, lines 125 and 134.
StepAddFreq(p) ==
  /\ procs[p].pc = "addFreq"
  /\ frequent' = LRUAdd(frequent, procs[p].key, procs[p].val).c
  /\ Return(p, NoResult)
  /\ UNCHANGED <<size, recentSize, recent, recentEvict, last, lruVars, mu, lin>>

\* Add, line 140.
StepAddRecent(p) ==
  /\ procs[p].pc = "addRecent"
  /\ recent' = LRUAdd(recent, procs[p].key, procs[p].val).c
  /\ Return(p, NoResult)
  /\ UNCHANGED <<size, recentSize, frequent, recentEvict, last, lruVars, mu, lin>>

\* Remove, lines 186-194: the first pool that holds the key loses it.
StepRemove(p) ==
  /\ procs[p].pc = "remove"
  /\ IF LRURemove(frequent, procs[p].key).ok
     THEN /\ frequent' = LRURemove(frequent, procs[p].key).c
          /\ UNCHANGED <<recent, recentEvict>>
     ELSE IF LRURemove(recent, procs[p].key).ok
     THEN /\ recent' = LRURemove(recent, procs[p].key).c
          /\ UNCHANGED <<frequent, recentEvict>>
     ELSE /\ recentEvict' = LRURemove(recentEvict, procs[p].key).c
          /\ UNCHANGED <<recent, frequent>>
  /\ Return(p, NoResult)
  /\ UNCHANGED <<size, recentSize, last, lruVars, mu, lin>>

\* Purge, line 201.
StepPurgeRecent(p) ==
  /\ procs[p].pc = "purge1"
  /\ recent' = LRUPurge(recent).c
  /\ Goto(p, "purge2")
  /\ UNCHANGED <<size, recentSize, frequent, recentEvict, last, lruVars, mu, lin>>

\* Purge, line 202.
StepPurgeFrequent(p) ==
  /\ procs[p].pc = "purge2"
  /\ frequent' = LRUPurge(frequent).c
  /\ Goto(p, "purge3")
  /\ UNCHANGED <<size, recentSize, recent, recentEvict, last, lruVars, mu, lin>>

\* Purge, line 203.
StepPurgeGhosts(p) ==
  /\ procs[p].pc = "purge3"
  /\ recentEvict' = LRUPurge(recentEvict).c
  /\ Return(p, NoResult)
  /\ UNCHANGED <<size, recentSize, recent, frequent, last, lruVars, mu, lin>>

\* The deferred c.lock.Unlock() or c.lock.RUnlock(), and the return.
StepUnlock(p) ==
  /\ procs[p].pc = "unlock"
  /\ mu' = IF LockKind(procs[p].op) = "Lock"
           THEN [mu EXCEPT !.writer = NoProc]
           ELSE [mu EXCEPT !.readers = @ \ {p}]
  /\ procs' = [procs EXCEPT ![p] = IdleProc]
  /\ UNCHANGED <<tqVars, last, lruVars, lin>>

NextConc ==
  \E p \in Procs :
    \/ Announce(p)
    \/ \E call \in Calls : Acquire(p, call)
    \/ \E call \in Calls : AcquireShared(p, call)
    \/ StepGet(p)
    \/ StepGetAdd(p)
    \/ StepAdd(p)
    \/ StepEnsure(p)
    \/ StepEnsureGhost(p)
    \/ StepGhostRemove(p)
    \/ StepAddFreq(p)
    \/ StepAddRecent(p)
    \/ StepRemove(p)
    \/ StepPurgeRecent(p)
    \/ StepPurgeFrequent(p)
    \/ StepPurgeGhosts(p)
    \/ StepUnlock(p)

SpecConc == InitConc /\ [][NextConc]_vars

\* C7: every call returns what it returns in the sequential execution that
\* takes the calls in the order in which they got the lock, and whenever no
\* writer holds the lock the cache is the cache of that execution: no
\* reader sees the cache between two mutations of one call.
C7_Linearizable ==
  /\ \A p \in Procs : procs[p].pc = "unlock" => procs[p].ret = procs[p].exp
  /\ mu.writer = NoProc => Q = lin

\* A Get(k) holds the lock between its Remove from recent and its Add to
\* frequent: k is in neither pool, and in the sequential execution the Get
\* is over and k is in frequent.
C7_Witness ==
  \E w \in Procs :
    /\ mu.writer = w /\ procs[w].pc = "getAdd"
    /\ ~TQContains(Q, procs[w].key) /\ TQContains(lin, procs[w].key)

\* The steps of a call that has started: the end of its Lock, its body and
\* its deferred unlock.
Continue(p) ==
  \/ \E call \in Calls : Acquire(p, call)
  \/ StepGet(p)
  \/ StepGetAdd(p)
  \/ StepAdd(p)
  \/ StepEnsure(p)
  \/ StepEnsureGhost(p)
  \/ StepGhostRemove(p)
  \/ StepAddFreq(p)
  \/ StepAddRecent(p)
  \/ StepRemove(p)
  \/ StepPurgeRecent(p)
  \/ StepPurgeFrequent(p)
  \/ StepPurgeGhosts(p)
  \/ StepUnlock(p)

\* Progress is a matter of the lock and of the paths through the bodies, not
\* of how many entries the cache holds: the fair specification starts from
\* the caches of size 1, in which every path of every body is taken.
InitConcFair == InitConc /\ size = 1

\* SpecConcFair: the scheduler runs every goroutine that can take a step.
\* No caller is obliged to start a call.
SpecConcFair ==
  InitConcFair /\ [][NextConc]_vars /\ \A p \in Procs : WF_vars(Continue(p))

\* The caller is inside the body of its operation or at its deferred unlock.
InBody(p) == procs[p].pc \notin {"idle", "wwait"}

\* C18: a caller inside Get, Add, Remove or Purge holds the lock alone, a
\* caller inside Len, Keys, Contains or Peek holds it shared with no writer,
\* up to the deferred unlock on every path; the lock is held only by callers
\* inside an operation, so no state with a held lock and no running
\* operation is reachable; and under fair scheduling every call that has
\* started completes.
C18_LockDiscipline ==
  /\ [](/\ \A p \in Procs :
             /\ (InBody(p) /\ procs[p].op \in WriteOps) =>
                  mu.writer = p /\ mu.readers = {}
             /\ (InBody(p) /\ procs[p].op \in ReadOps) =>
                  p \in mu.readers /\ mu.writer = NoProc
             /\ InBody(p) => procs[p].op \in WriteOps \cup ReadOps
        /\ mu.writer # NoProc => InBody(mu.writer)
        /\ \A r \in mu.readers : InBody(r)
        /\ mu.pending # NoProc => procs[mu.pending].pc = "wwait")
  /\ \A p \in Procs : (procs[p].pc # "idle") ~> (procs[p].pc = "idle")

\* A writer has announced itself and waits while a reader holds the lock.
C18_Witness ==
  /\ mu.pending # NoProc /\ mu.readers # {}
  /\ procs[mu.pending].pc = "wwait"

====
